---- MODULE Spec2Model ----
(***************************************************************************)
(* A model of gsoda's core (src/src/main.rs): the motion interpreter       *)
(* parse_gcode, the toolpath trimmer filter_priming_lines, the bounds      *)
(* calculator compute_bounds, and the part of main that chains them.       *)
(*                                                                         *)
(* Coordinates and the deposited-material quantity are f32 in the source;  *)
(* here they are integers, i.e. f32 values small enough to be exact, so    *)
(* rounding, NaN and overflow to infinity are outside this model.  The     *)
(* infinite extrema of Bounds::new are modelled explicitly (ExtReal).      *)
(***************************************************************************)
EXTENDS Integers, Sequences, FiniteSets, TLC

VARIABLES
    input,          \* the lines of `content` consumed so far (history)
    prior,          \* snapshot of the interpreter state before the last line (history)
    current_pos,    \* parse_gcode: current_pos
    e_pos,          \* parse_gcode: e_pos
    absolute_mode,  \* parse_gcode: absolute_mode
    segments,       \* parse_gcode: segments (and main's first `segments`)
    pc,             \* position in main
    start,          \* filter_priming_lines: start
    end,            \* filter_priming_lines: end
    trimmed,        \* main's second `segments` (result of filter_priming_lines)
    bounds,         \* main: bounds
    center,         \* main: center
    scale,          \* main: scale
    max_z,          \* main: max_z, in quarters of a unit
    layer_filter_enabled,   \* main: layer_filter_enabled
    layer_filter_z, \* main: layer_filter_z, in quarters of a unit
    keys            \* the keys found pressed in the last frame of the loop (history)

\* the state of the layer filter
view == <<max_z, layer_filter_enabled, layer_filter_z, keys>>

vars == <<input, prior, current_pos, e_pos, absolute_mode, segments, pc,
          start, end, trimmed, bounds, center, scale, view>>

----------------------------------------------------------------------------
(* Bounds of the model *)

\* greatest max_z the main loop is entered with, in quarters of a unit
MaxLayerZ == 9
\* number of input lines (gcodes) the interpreter is fed
MaxLines == 3
\* length of the segment sequences handed to the trimmer
MaxSegs == 6
\* length of the segment sequences handed to compute_bounds
MaxBoundSegs == 4

----------------------------------------------------------------------------
(* Geometry primitives *)

Vec3D(x, y, z) == [x |-> x, y |-> y, z |-> z]

Vec3DZero == Vec3D(0, 0, 0)

LineSegment(s, e, ext, lz) ==
    [start |-> s, end |-> e, is_extrusion |-> ext, layer_z |-> lz]

\* f32 with its two infinities: inf = 1 is +infinity, inf = -1 is -infinity
Fin(n) == [inf |-> 0, v |-> n]
PosInf == [inf |-> 1, v |-> 0]
NegInf == [inf |-> -1, v |-> 0]

ExtLeq(a, b) ==
    \/ a.inf = -1
    \/ b.inf = 1
    \/ a.inf = 0 /\ b.inf = 0 /\ a.v <= b.v

ExtMin(a, b) == IF ExtLeq(a, b) THEN a ELSE b
ExtMax(a, b) == IF ExtLeq(a, b) THEN b ELSE a

BoundsNew ==
    [min |-> [x |-> PosInf, y |-> PosInf, z |-> PosInf],
     max |-> [x |-> NegInf, y |-> NegInf, z |-> NegInf]]

Expand(b, p) ==
    [min |-> [x |-> ExtMin(b.min.x, Fin(p.x)),
              y |-> ExtMin(b.min.y, Fin(p.y)),
              z |-> ExtMin(b.min.z, Fin(p.z))],
     max |-> [x |-> ExtMax(b.max.x, Fin(p.x)),
              y |-> ExtMax(b.max.y, Fin(p.y)),
              z |-> ExtMax(b.max.z, Fin(p.z))]]

\* Results of f32 arithmetic on bounds: inf as above, inf = 2 is NaN, and a finite
\* value is num / den (the sign of a zero is not modelled).
F32(i, n, d) == [inf |-> i, num |-> n, den |-> d]
F32Zero == F32(0, 0, 1)

\* (a + b) * 0.5, lines 56-58
HalfSum(a, b) ==
    IF a.inf = 0 /\ b.inf = 0 THEN F32(0, a.v + b.v, 2)
    ELSE IF a.inf = 0 THEN F32(b.inf, 0, 1)
    ELSE IF b.inf = 0 \/ b.inf = a.inf THEN F32(a.inf, 0, 1)
    ELSE F32(2, 0, 1)

\* lines 54-60
Center(b) ==
    [x |-> HalfSum(b.min.x, b.max.x),
     y |-> HalfSum(b.min.y, b.max.y),
     z |-> HalfSum(b.min.z, b.max.z)]

\* a - b, lines 63-65 (NaN, from equal infinities, is [inf |-> 2])
ExtSub(a, b) ==
    IF a.inf = 0 /\ b.inf = 0 THEN Fin(a.v - b.v)
    ELSE IF b.inf = 0 THEN a
    ELSE IF a.inf = 0 THEN [inf |-> -b.inf, v |-> 0]
    ELSE IF a.inf = b.inf THEN [inf |-> 2, v |-> 0]
    ELSE a

\* f32::max, line 66: a NaN operand is ignored
F32Max(a, b) ==
    IF a.inf = 2 THEN b
    ELSE IF b.inf = 2 THEN a
    ELSE ExtMax(a, b)

\* lines 62-67
MaxDimension(b) ==
    LET dx == ExtSub(b.max.x, b.min.x)
        dy == ExtSub(b.max.y, b.min.y)
        dz == ExtSub(b.max.z, b.min.z)
    IN F32Max(F32Max(dx, dy), dz)

\* 2.0 / d, line 269
TwoOver(d) ==
    IF d.inf = 2 THEN F32(2, 0, 1)
    ELSE IF d.inf # 0 THEN F32Zero
    ELSE IF d.v = 0 THEN F32(1, 0, 1)
    ELSE IF d.v > 0 THEN F32(0, 2, d.v)
    ELSE F32(0, -2, -d.v)

----------------------------------------------------------------------------
(* Input of the motion interpreter.  A line of `content` is blank, a       *)
(* comment, or is tokenized by gcode::parse into gcodes; the model feeds   *)
(* the interpreter one gcode per line.  `arguments` is the list the        *)
(* tokenizer yields, in source order (a letter may occur more than once).  *)

Word(l, v) == [letter |-> l, value |-> v]

GCode(m, n, args) ==
    [kind |-> "gcode", mnemonic |-> m, major |-> n, arguments |-> args]

BlankLine == [kind |-> "blank", mnemonic |-> "", major |-> 0, arguments |-> <<>>]

CommentLine == [kind |-> "comment", mnemonic |-> "", major |-> 0, arguments |-> <<>>]

MoveArguments ==
    {<<>>}
    \cup {<<Word("X", v)>> : v \in {-1, 0, 1}}
    \cup {<<Word("E", v)>> : v \in {-1, 0, 1}}
    \cup {<<Word("Y", 1)>>, <<Word("Z", 1)>>, <<Word("F", 1)>>}
    \cup {<<Word("X", 1), Word("E", 1)>>,
          <<Word("X", 1), Word("X", -1)>>,
          <<Word("X", 0), Word("Y", 0), Word("Z", 0)>>,
          <<Word("X", 10), Word("Y", 0), Word("Z", 0), Word("E", 1)>>}

Lines ==
    {BlankLine, CommentLine}
    \cup {GCode("G", 1, a) : a \in MoveArguments}
    \cup {GCode("G", 0, <<Word("X", 1)>>),
          GCode("G", 90, <<>>),
          GCode("G", 91, <<>>),
          GCode("G", 28, <<>>),
          GCode("G", 92, <<Word("E", 0)>>),
          GCode("M", 104, <<Word("S", 1)>>)}

----------------------------------------------------------------------------
(* parse_gcode *)

\* lines 111-114: the line is skipped
IsSkipped(l) == l.kind \in {"blank", "comment"}

\* lines 119-121: a General gcode with major number 0 or 1
IsMove(l) == l.kind = "gcode" /\ l.mnemonic = "G" /\ l.major \in {0, 1}

\* SetArgument without its 'E' arm
SetArgumentIgnoringE(acc, arg) ==
    CASE arg.letter = "X" -> [acc EXCEPT !.pos.x = arg.value]
      [] arg.letter = "Y" -> [acc EXCEPT !.pos.y = arg.value]
      [] arg.letter = "Z" -> [acc EXCEPT !.pos.z = arg.value]
      [] OTHER -> acc

\* lines 127-133: one argument overwrites one component of (new_pos, new_e)
SetArgument(acc, arg) ==
    CASE arg.letter = "X" -> [acc EXCEPT !.pos.x = arg.value]
      [] arg.letter = "Y" -> [acc EXCEPT !.pos.y = arg.value]
      [] arg.letter = "Z" -> [acc EXCEPT !.pos.z = arg.value]
      [] arg.letter = "E" -> [acc EXCEPT !.e = arg.value]
      [] OTHER -> acc

\* lines 126-134: the loop over gcode.arguments()
RECURSIVE ApplyArguments(_, _)
ApplyArguments(acc, args) ==
    IF args = <<>> THEN acc
    ELSE ApplyArguments(SetArgument(acc, Head(args)), Tail(args))

\* AddPrior that leaves the arguments as they were parsed
AddPriorOmitted(new, cur_pos, cur_e) == new

\* lines 137-140: in relative mode the prior state is added to every component
AddPrior(new, cur_pos, cur_e) ==
    [pos |-> Vec3D(new.pos.x + cur_pos.x, new.pos.y + cur_pos.y, new.pos.z + cur_pos.z),
     e |-> new.e + cur_e]

\* lines 123-141: (new_pos, new_e) of a G0/G1 command
Resolve(cur_pos, cur_e, absolute, args) ==
    LET new == ApplyArguments([pos |-> cur_pos, e |-> cur_e], args)
    IN IF ~absolute THEN AddPrior(new, cur_pos, cur_e) ELSE new

\* IsExtrusion with a non-strict comparison
IsExtrusionNonStrict(new_e, cur_e) == new_e >= cur_e

\* line 143
IsExtrusion(new_e, cur_e) == new_e > cur_e

\* SegmentEmitted without the comparison of the positions
SegmentAlwaysEmitted(cur_pos, new_pos) == TRUE

\* SegmentEmitted comparing x and y only
SegmentEmittedIgnoringZ(cur_pos, new_pos) ==
    new_pos.x # cur_pos.x \/ new_pos.y # cur_pos.y

\* line 145
SegmentEmitted(cur_pos, new_pos) ==
    new_pos.x # cur_pos.x \/ new_pos.y # cur_pos.y \/ new_pos.z # cur_pos.z

\* NewSegment taking layer_z from the start point
NewSegmentStartZ(cur_pos, new_pos, is_extrusion) ==
    LineSegment(cur_pos, new_pos, is_extrusion, cur_pos.z)

\* lines 146-151
NewSegment(cur_pos, new_pos, is_extrusion) ==
    LineSegment(cur_pos, new_pos, is_extrusion, new_pos.z)

Snapshot ==
    [pos |-> current_pos, e |-> e_pos, mode |-> absolute_mode, nsegs |-> Len(segments)]

Reading == pc = "parse" /\ Len(input) < MaxLines

Consume(l) ==
    /\ input' = Append(input, l)
    /\ prior' = Snapshot

\* lines 111-114: a blank line or a comment
SkipLine ==
    \E l \in Lines :
        /\ Reading
        /\ IsSkipped(l)
        /\ Consume(l)
        /\ UNCHANGED <<current_pos, e_pos, absolute_mode, segments, pc,
                       start, end, trimmed, bounds,
                   center, scale, view>>

\* MotionCommand with lines 154-155 moved inside the if of line 145
MotionCommandUpdateOnEmit ==
    \E l \in Lines :
        /\ Reading
        /\ IsMove(l)
        /\ Consume(l)
        /\ LET new == Resolve(current_pos, e_pos, absolute_mode, l.arguments)
               is_extrusion == IsExtrusion(new.e, e_pos)
           IN IF SegmentEmitted(current_pos, new.pos)
              THEN /\ segments' = Append(segments,
                                         NewSegment(current_pos, new.pos, is_extrusion))
                   /\ current_pos' = new.pos
                   /\ e_pos' = new.e
              ELSE UNCHANGED <<segments, current_pos, e_pos>>
        /\ UNCHANGED <<absolute_mode, pc, start, end, trimmed, bounds, center, scale, view>>

\* lines 121-155: G0 / G1
MotionCommand ==
    \E l \in Lines :
        /\ Reading
        /\ IsMove(l)
        /\ Consume(l)
        /\ LET new == Resolve(current_pos, e_pos, absolute_mode, l.arguments)
               is_extrusion == IsExtrusion(new.e, e_pos)
           IN /\ segments' =
                    IF SegmentEmitted(current_pos, new.pos)
                    THEN Append(segments, NewSegment(current_pos, new.pos, is_extrusion))
                    ELSE segments
              /\ current_pos' = new.pos
              /\ e_pos' = new.e
        /\ UNCHANGED <<absolute_mode, pc, start, end, trimmed, bounds,
                   center, scale, view>>

\* lines 156-157: G90
SetAbsolute ==
    \E l \in Lines :
        /\ Reading
        /\ l.kind = "gcode" /\ l.mnemonic = "G" /\ l.major = 90
        /\ Consume(l)
        /\ absolute_mode' = TRUE
        /\ UNCHANGED <<current_pos, e_pos, segments, pc, start, end, trimmed, bounds,
                   center, scale, view>>

\* SetRelative toggling the mode
SetRelativeToggle ==
    \E l \in Lines :
        /\ Reading
        /\ l.kind = "gcode" /\ l.mnemonic = "G" /\ l.major = 91
        /\ Consume(l)
        /\ absolute_mode' = ~absolute_mode
        /\ UNCHANGED <<current_pos, e_pos, segments, pc, start, end, trimmed, bounds,
                       center, scale, view>>

\* lines 158-159: G91
SetRelative ==
    \E l \in Lines :
        /\ Reading
        /\ l.kind = "gcode" /\ l.mnemonic = "G" /\ l.major = 91
        /\ Consume(l)
        /\ absolute_mode' = FALSE
        /\ UNCHANGED <<current_pos, e_pos, segments, pc, start, end, trimmed, bounds,
                   center, scale, view>>

\* IgnoredCommand interpreting G92 E<v> as a reset of the quantity
IgnoredCommandSetsE ==
    \E l \in Lines :
        /\ Reading
        /\ l.kind = "gcode"
        /\ ~(l.mnemonic = "G" /\ l.major \in {0, 1, 90, 91})
        /\ Consume(l)
        /\ e_pos' = IF l.mnemonic = "G" /\ l.major = 92
                    THEN ApplyArguments([pos |-> current_pos, e |-> e_pos], l.arguments).e
                    ELSE e_pos
        /\ UNCHANGED <<current_pos, absolute_mode, segments, pc,
                       start, end, trimmed, bounds, center, scale, view>>

\* lines 160-162: any other General gcode, and any other mnemonic
IgnoredCommand ==
    \E l \in Lines :
        /\ Reading
        /\ l.kind = "gcode"
        /\ ~(l.mnemonic = "G" /\ l.major \in {0, 1, 90, 91})
        /\ Consume(l)
        /\ UNCHANGED <<current_pos, e_pos, absolute_mode, segments, pc,
                       start, end, trimmed, bounds,
                   center, scale, view>>

\* lines 110, 168: content.lines() is exhausted, Ok(segments) is returned
EndOfInput ==
    /\ pc = "parse"
    /\ pc' = "parsed"
    /\ UNCHANGED <<input, prior, current_pos, e_pos, absolute_mode, segments,
                   start, end, trimmed, bounds,
                   center, scale, view>>

----------------------------------------------------------------------------
(* filter_priming_lines *)

WindowSize == 5
ExtrusionThreshold == 3
EdgeX == 10
EdgeY == 20
LongMoveExtent == 100

\* Option<usize>
None == [some |-> FALSE, v |-> 0]
Some(i) == [some |-> TRUE, v |-> i]
UnwrapOr(o, d) == IF o.some THEN o.v ELSE d

Abs(n) == IF n < 0 THEN -n ELSE n

\* AtEdge with non-strict thresholds
AtEdgeInclusive(s) ==
    \/ s.start.x <= EdgeX
    \/ s.end.x <= EdgeX
    \/ s.start.y <= EdgeY
    \/ s.end.y <= EdgeY

\* lines 189-190
AtEdge(s) ==
    \/ s.start.x < EdgeX
    \/ s.end.x < EdgeX
    \/ s.start.y < EdgeY
    \/ s.end.y < EdgeY

\* lines 191-192
LongMove(s) ==
    \/ Abs(s.end.x - s.start.x) > LongMoveExtent
    \/ Abs(s.end.y - s.start.y) > LongMoveExtent

\* lines 188-194
AwayFromEdges(window) ==
    \A k \in DOMAIN window : ~AtEdge(window[k]) /\ ~LongMove(window[k])

\* ExtrusionCount without the is_extrusion filter
ExtrusionCountAll(window) == Len(window)

\* line 185
ExtrusionCount(window) ==
    Cardinality({k \in DOMAIN window : window[k].is_extrusion})

\* line 184: the i-th (0-based) element of segments.windows(5)
Window(segs, i) == SubSeq(segs, i + 1, i + WindowSize)

\* lines 184-201: the scan from window i on; None when the windows are exhausted
RECURSIVE StartIndexFrom(_, _)
StartIndexFrom(segs, i) ==
    IF i + WindowSize > Len(segs) THEN None
    ELSE IF /\ ExtrusionCount(Window(segs, i)) >= ExtrusionThreshold
            /\ AwayFromEdges(Window(segs, i))
         THEN Some(i)
         ELSE StartIndexFrom(segs, i + 1)

\* lines 180-201: start_index
StartIndex(segs) == StartIndexFrom(segs, 0)

\* position instead of rposition: the first depositing segment
RECURSIVE PositionFrom(_, _)
PositionFrom(segs, i) ==
    IF i < 0 THEN None
    ELSE LET r == PositionFrom(segs, i - 1)
         IN IF r.some THEN r
            ELSE IF segs[i + 1].is_extrusion THEN Some(i) ELSE None

\* line 205: rposition, scanning from 0-based index i down to 0
RECURSIVE RPositionFrom(_, _)
RPositionFrom(segs, i) ==
    IF i < 0 THEN None
    ELSE IF segs[i + 1].is_extrusion THEN Some(i)
         ELSE RPositionFrom(segs, i - 1)

\* EndIndex mapped with i + 2
EndIndexTwoPast(segs) ==
    LET r == RPositionFrom(segs, Len(segs) - 1)
    IN IF r.some THEN Some(r.v + 2) ELSE None

\* EndIndex without the + 1 that includes the last depositing segment
EndIndexExclusive(segs) ==
    LET r == RPositionFrom(segs, Len(segs) - 1)
    IN IF r.some THEN Some(r.v) ELSE None

\* lines 204-206: end_index
EndIndex(segs) ==
    LET r == RPositionFrom(segs, Len(segs) - 1)
    IN IF r.some THEN Some(r.v + 1) ELSE None

\* line 211: segments[s..e].to_vec(), which panics when s > e or e > len
Slice(segs, s, e) ==
    IF s > e \/ e > Len(segs)
    THEN [panic |-> TRUE, out |-> <<>>]
    ELSE [panic |-> FALSE, out |-> SubSeq(segs, s + 1, e)]

\* lines 171-212 (an empty input returns before start and end exist: both are 0 here)
FilterPrimingLines ==
    /\ pc = "parsed"
    /\ IF segments = <<>>
       THEN /\ start' = 0
            /\ end' = 0
            /\ trimmed' = <<>>
            /\ pc' = "trimmed"
       ELSE LET s == UnwrapOr(StartIndex(segments), 0)
                e == UnwrapOr(EndIndex(segments), Len(segments))
                r == Slice(segments, s, e)
            IN /\ start' = s
               /\ end' = e
               /\ trimmed' = r.out
               /\ pc' = IF r.panic THEN "panic" ELSE "trimmed"
    /\ UNCHANGED <<input, prior, current_pos, e_pos, absolute_mode, segments, bounds,
                   center, scale, view>>

----------------------------------------------------------------------------
(* compute_bounds and main *)

\* ExpandAll without the is_extrusion test
RECURSIVE ExpandEverySegment(_, _)
ExpandEverySegment(b, segs) ==
    IF segs = <<>> THEN b
    ELSE ExpandEverySegment(Expand(Expand(b, Head(segs).start), Head(segs).end),
                            Tail(segs))

\* lines 218-223: the loop over the segments, from accumulator b
RECURSIVE ExpandAll(_, _)
ExpandAll(b, segs) ==
    IF segs = <<>> THEN b
    ELSE LET seg == Head(segs)
         IN ExpandAll(IF seg.is_extrusion
                      THEN Expand(Expand(b, seg.start), seg.end)
                      ELSE b,
                      Tail(segs))

\* lines 214-226
ComputeBounds(segs) == ExpandAll(BoundsNew, segs)

\* main, lines 263-265
BailEmpty ==
    /\ pc = "trimmed"
    /\ trimmed = <<>>
    /\ pc' = "bailed"
    /\ UNCHANGED <<input, prior, current_pos, e_pos, absolute_mode, segments,
                   start, end, trimmed, bounds,
                   center, scale, view>>

\* main, line 267
ComputeBoundsStep ==
    /\ pc = "trimmed"
    /\ trimmed # <<>>
    /\ bounds' = ComputeBounds(trimmed)
    /\ pc' = "bounded"
    /\ UNCHANGED <<input, prior, current_pos, e_pos, absolute_mode, segments,
                   start, end, trimmed, center, scale, view>>

\* main, lines 268-269
ComputeCenterScale ==
    /\ pc = "bounded"
    /\ center' = Center(bounds)
    /\ scale' = TwoOver(MaxDimension(bounds))
    /\ pc' = "viewing"
    /\ UNCHANGED <<input, prior, current_pos, e_pos, absolute_mode, segments,
                   start, end, trimmed, bounds, view>>

----------------------------------------------------------------------------
(* The layer filter of main's loop.  Heights are in quarters of a unit, so *)
(* that the step 0.5 is LayerStep and a max_z between two steps exists.    *)

LayerStep == 2

InQuarters(a) == [inf |-> a.inf, v |-> 4 * a.v]

\* the keys a frame finds pressed (is_key_pressed, lines 296, 312, 316)
NoKeys == [l |-> FALSE, up |-> FALSE, down |-> FALSE]
Keys == [l : BOOLEAN, up : BOOLEAN, down : BOOLEAN]

\* a + b on f32 values with infinities
ExtAdd(a, b) == ExtSub(a, [inf |-> -b.inf, v |-> -b.v])

\* StepUp without the cap
StepUpUncapped(z, max) == ExtAdd(z, Fin(LayerStep))

\* line 313
StepUp(z, max) == ExtMin(ExtAdd(z, Fin(LayerStep)), max)

\* StepDown without the floor
StepDownUnfloored(z) == ExtSub(z, Fin(LayerStep))

\* line 317
StepDown(z) == ExtMax(ExtSub(z, Fin(LayerStep)), Fin(0))

\* main, lines 277-280: the locals of the loop
InitView ==
    /\ pc = "viewing"
    /\ max_z' = InQuarters(bounds.max.z)
    /\ layer_filter_enabled' = FALSE
    /\ layer_filter_z' = InQuarters(bounds.max.z)
    /\ keys' = NoKeys
    /\ pc' = "loop"
    /\ UNCHANGED <<input, prior, current_pos, e_pos, absolute_mode, segments,
                   start, end, trimmed, bounds, center, scale>>

\* main, lines 287-289: Escape leaves the loop
Quit ==
    /\ pc = "loop"
    /\ pc' = "exit"
    /\ UNCHANGED <<input, prior, current_pos, e_pos, absolute_mode, segments,
                   start, end, trimmed, bounds, center, scale, view>>

\* main, lines 296-320: one frame of the loop with the keys k pressed (the camera,
\* the other toggles and the drawing do not touch the layer filter)
Frame ==
    \E k \in Keys :
        /\ pc = "loop"
        /\ keys' = k
        /\ LET enabled == IF k.l THEN ~layer_filter_enabled ELSE layer_filter_enabled
               z1 == IF enabled /\ k.up THEN StepUp(layer_filter_z, max_z)
                     ELSE layer_filter_z
               z2 == IF enabled /\ k.down THEN StepDown(z1) ELSE z1
           IN /\ layer_filter_enabled' = enabled
              /\ layer_filter_z' = z2
        /\ UNCHANGED <<input, prior, current_pos, e_pos, absolute_mode, segments, pc,
                       start, end, trimmed, bounds, center, scale, max_z>>

----------------------------------------------------------------------------
(* Specifications *)

\* main from its call of parse_gcode on (lines 105-108, 257)
Init ==
    /\ input = <<>>
    /\ current_pos = Vec3DZero
    /\ e_pos = 0
    /\ absolute_mode = TRUE
    /\ segments = <<>>
    /\ prior = [pos |-> Vec3DZero, e |-> 0, mode |-> TRUE, nsegs |-> 0]
    /\ pc = "parse"
    /\ start = 0
    /\ end = 0
    /\ trimmed = <<>>
    /\ bounds = BoundsNew
    /\ center = [x |-> F32Zero, y |-> F32Zero, z |-> F32Zero]
    /\ scale = F32Zero
    /\ max_z = Fin(0)
    /\ layer_filter_enabled = FALSE
    /\ layer_filter_z = Fin(0)
    /\ keys = NoKeys

Next ==
    \/ SkipLine
    \/ MotionCommand
    \/ SetAbsolute
    \/ SetRelative
    \/ IgnoredCommand
    \/ EndOfInput
    \/ FilterPrimingLines
    \/ BailEmpty
    \/ ComputeBoundsStep
    \/ ComputeCenterScale
    \/ InitView

Spec == Init /\ [][Next]_vars

\* Segments around the trimmer's thresholds, used as inputs of the trimmer and of
\* compute_bounds taken as functions of an arbitrary segment sequence.
SegPool ==
    {LineSegment(Vec3D(10, 20, 1), Vec3D(110, 120, 1), TRUE, 1),
     LineSegment(Vec3D(110, 120, 1), Vec3D(10, 20, 2), FALSE, 2),
     LineSegment(Vec3D(9, 20, 0), Vec3D(10, 20, 0), TRUE, 0),
     LineSegment(Vec3D(10, 20, 0), Vec3D(10, 19, 3), FALSE, 3),
     LineSegment(Vec3D(111, 20, 1), Vec3D(10, 20, 1), TRUE, 1),
     LineSegment(Vec3D(30, 30, 2), Vec3D(40, 30, 2), TRUE, 2)}

SegSeqsUpTo(max) == UNION {[1..n -> SegPool] : n \in 0..max}

SegSeqs == SegSeqsUpTo(MaxSegs)

\* filter_priming_lines applied to any segment sequence, then main's check for an
\* empty result and compute_bounds
InitTrim ==
    /\ segments \in SegSeqs
    /\ pc = "parsed"
    /\ input = <<>>
    /\ current_pos = Vec3DZero
    /\ e_pos = 0
    /\ absolute_mode = TRUE
    /\ prior = [pos |-> Vec3DZero, e |-> 0, mode |-> TRUE, nsegs |-> 0]
    /\ start = 0
    /\ end = 0
    /\ trimmed = <<>>
    /\ bounds = BoundsNew
    /\ center = [x |-> F32Zero, y |-> F32Zero, z |-> F32Zero]
    /\ scale = F32Zero
    /\ max_z = Fin(0)
    /\ layer_filter_enabled = FALSE
    /\ layer_filter_z = Fin(0)
    /\ keys = NoKeys

NextTrim ==
    \/ FilterPrimingLines
    \/ BailEmpty
    \/ ComputeBoundsStep

SpecTrim == InitTrim /\ [][NextTrim]_vars

\* compute_bounds applied to any non-empty segment sequence
InitBounds ==
    /\ trimmed \in SegSeqsUpTo(MaxBoundSegs)
    /\ segments = trimmed
    /\ pc = "trimmed"
    /\ input = <<>>
    /\ current_pos = Vec3DZero
    /\ e_pos = 0
    /\ absolute_mode = TRUE
    /\ prior = [pos |-> Vec3DZero, e |-> 0, mode |-> TRUE, nsegs |-> 0]
    /\ start = 0
    /\ end = Len(trimmed)
    /\ bounds = BoundsNew
    /\ center = [x |-> F32Zero, y |-> F32Zero, z |-> F32Zero]
    /\ scale = F32Zero
    /\ max_z = Fin(0)
    /\ layer_filter_enabled = FALSE
    /\ layer_filter_z = Fin(0)
    /\ keys = NoKeys

NextBounds == ComputeBoundsStep

SpecBounds == InitBounds /\ [][NextBounds]_vars

----------------------------------------------------------------------------
(* Claims about parse_gcode, checked under Spec *)

LastLine == input[Len(input)]

MoveDone == input # <<>> /\ IsMove(LastLine)

AxisLetters == {"X", "Y", "Z", "E"}

\* the letters among X, Y, Z, E that the arguments carry
Carried(args) == {args[k].letter : k \in DOMAIN args} \cap AxisLetters

\* the value of the last argument with this letter
LastValue(args, letter) ==
    LET ks == {k \in DOMAIN args : args[k].letter = letter}
    IN args[CHOOSE k \in ks : \A j \in ks : j <= k].value

\* the component of an interpreter state (pos, e) that a letter names
Component(pos, e, letter) ==
    CASE letter = "X" -> pos.x
      [] letter = "Y" -> pos.y
      [] letter = "Z" -> pos.z
      [] letter = "E" -> e

\* C1: every emitted segment has start and end differing in x, y or z, and a G0/G1
\* command whose resolved position equals the prior position emits no segment.
C1_NoZeroLengthSegment ==
    /\ \A i \in DOMAIN segments :
          \/ segments[i].start.x # segments[i].end.x
          \/ segments[i].start.y # segments[i].end.y
          \/ segments[i].start.z # segments[i].end.z
    /\ (MoveDone /\ current_pos = prior.pos) => Len(segments) = prior.nsegs

\* a G0/G1 command changed the deposited quantity only, after a segment was emitted
C1_Witness ==
    /\ MoveDone
    /\ current_pos = prior.pos
    /\ e_pos # prior.e
    /\ segments # <<>>

\* C2: a G0/G1 command that specifies only one of X, Y, Z, E leaves, in either
\* positioning mode, every unspecified axis and (when E is unspecified) the
\* deposited-material quantity as they were before the command.
C2_CarryForward ==
    (MoveDone /\ Cardinality(Carried(LastLine.arguments)) = 1) =>
        \A letter \in AxisLetters \ Carried(LastLine.arguments) :
            Component(current_pos, e_pos, letter) = Component(prior.pos, prior.e, letter)

\* C3 as stated: in relative mode every argument X, Y, Z or E with value v resolves
\* its component to (value before the command) + v.
C3_EveryArgumentAdded ==
    (MoveDone /\ ~prior.mode) =>
        \A k \in DOMAIN LastLine.arguments :
            LastLine.arguments[k].letter \in AxisLetters =>
                Component(current_pos, e_pos, LastLine.arguments[k].letter)
                    = Component(prior.pos, prior.e, LastLine.arguments[k].letter)
                      + LastLine.arguments[k].value

\* C3 as amended: in relative mode every letter X, Y, Z or E the command carries
\* resolves its component to (value before the command) + v, v the value of the
\* last argument with that letter.
C3_LastArgumentAdded ==
    (MoveDone /\ ~prior.mode) =>
        \A letter \in Carried(LastLine.arguments) :
            Component(current_pos, e_pos, letter)
                = Component(prior.pos, prior.e, letter)
                  + LastValue(LastLine.arguments, letter)

\* a relative command carrying X and E from a state with x and e non-zero
C3_Witness ==
    /\ MoveDone
    /\ ~prior.mode
    /\ Carried(LastLine.arguments) = {"X", "E"}
    /\ prior.pos.x # 0
    /\ prior.e # 0

\* C4: an emitted segment has is_extrusion = TRUE iff the quantity its command
\* resolved is strictly greater than the quantity held before the command.
C4_DepositingDetection ==
    (MoveDone /\ Len(segments) = prior.nsegs + 1) =>
        (segments[Len(segments)].is_extrusion <=> e_pos > prior.e)

\* a segment emitted by a command that left the quantity as it was, after a deposit
C4_Witness ==
    /\ MoveDone
    /\ Len(segments) = prior.nsegs + 1
    /\ e_pos = prior.e
    /\ e_pos > 0
    /\ ~segments[Len(segments)].is_extrusion

Scenario1 ==
    <<GCode("G", 90, <<>>),
      GCode("G", 1, <<Word("X", 0), Word("Y", 0), Word("Z", 0)>>),
      GCode("G", 1, <<Word("X", 10), Word("Y", 0), Word("Z", 0), Word("E", 1)>>)>>

\* C5 as stated: G90, G1 X0 Y0 Z0, G1 X10 Y0 Z0 E1 yield exactly two segments, the
\* first not depositing and the second depositing.
C5_TwoSegments ==
    input = Scenario1 =>
        /\ Len(segments) = 2
        /\ ~segments[1].is_extrusion
        /\ segments[2].is_extrusion

\* C5 as amended: the three lines yield exactly one segment, from the origin to
\* (10,0,0), depositing (G1 X0 Y0 Z0 at the origin is a zero-length move).
C5_OneSegment ==
    input = Scenario1 =>
        segments = <<LineSegment(Vec3DZero, Vec3D(10, 0, 0), TRUE, 0)>>

\* the three lines were interpreted and parse_gcode returned
C5_Witness == input = Scenario1 /\ pc = "parsed"

----------------------------------------------------------------------------
(* Claims about filter_priming_lines, checked under SpecTrim *)

\* the (1-based) positions of the depositing segments
Depositing(segs) == {k \in DOMAIN segs : segs[k].is_extrusion}

SetMax(S) == CHOOSE m \in S : \A n \in S : n <= m
SetMin(S) == CHOOSE m \in S : \A n \in S : m <= n

\* C6: start and end satisfy 0 <= start <= end <= len (the slice never panics) and
\* the output is the contiguous run input[start..end), every segment unchanged;
\* an empty input yields an empty output.
C6_RangeSafety ==
    /\ pc # "panic"
    /\ pc = "trimmed" =>
        /\ 0 <= start /\ start <= end /\ end <= Len(segments)
        /\ Len(trimmed) = end - start
        /\ \A k \in 1..Len(trimmed) : trimmed[k] = segments[start + k]
        /\ segments = <<>> => trimmed = <<>>

\* the trimmer cut at both ends
C6_Witness ==
    /\ pc = "trimmed"
    /\ start > 0
    /\ end < Len(segments)

ShortWithDeposit ==
    /\ pc = "trimmed"
    /\ Len(segments) >= 1
    /\ Len(segments) < 5
    /\ Depositing(segments) # {}

\* C7 as stated: an input of 1 to 4 segments with a depositing segment is returned
\* whole.
C7_WholeInput == ShortWithDeposit => trimmed = segments

\* C7 as amended: for an input of 1 to 4 segments with a depositing segment, start
\* is 0 and the output is the input up to and including its last depositing
\* segment; it is the whole input exactly when the last segment is depositing.
C7_PrefixToLastDeposit ==
    ShortWithDeposit =>
        /\ start = 0
        /\ trimmed = SubSeq(segments, 1, SetMax(Depositing(segments)))
        /\ trimmed = segments <=> segments[Len(segments)].is_extrusion

\* a short input that ends with a non-depositing segment, which is cut
C7_Witness ==
    /\ ShortWithDeposit
    /\ ~segments[Len(segments)].is_extrusion
    /\ Len(trimmed) < Len(segments)

\* C8: for a non-empty input, end is (0-based index of the last depositing
\* segment) + 1, or the length when nothing is depositing; with a depositing
\* segment the output ends with a depositing segment and no segment after the
\* last depositing one is kept.
C8_EndBoundary ==
    (pc = "trimmed" /\ segments # <<>>) =>
        /\ end = IF Depositing(segments) = {} THEN Len(segments)
                 ELSE SetMax(Depositing(segments))
        /\ Depositing(segments) # {} =>
            /\ trimmed # <<>>
            /\ trimmed[Len(trimmed)].is_extrusion
            /\ trimmed[Len(trimmed)] = segments[SetMax(Depositing(segments))]
            /\ start + Len(trimmed) = SetMax(Depositing(segments))

\* non-depositing segments follow the last depositing one, and are dropped
C8_Witness ==
    /\ pc = "trimmed"
    /\ Depositing(segments) # {}
    /\ SetMax(Depositing(segments)) + 2 <= Len(segments)
    /\ end = SetMax(Depositing(segments))

\* the window input[i..i+5) of C9 qualifies (i is 0-based)
Qualifies(segs, i) ==
    /\ Cardinality({k \in (i + 1)..(i + 5) : segs[k].is_extrusion}) >= 3
    /\ \A k \in (i + 1)..(i + 5) :
        /\ segs[k].start.x >= 10 /\ segs[k].end.x >= 10
        /\ segs[k].start.y >= 20 /\ segs[k].end.y >= 20
        /\ segs[k].end.x - segs[k].start.x <= 100
        /\ segs[k].start.x - segs[k].end.x <= 100
        /\ segs[k].end.y - segs[k].start.y <= 100
        /\ segs[k].start.y - segs[k].end.y <= 100

\* C9: start is the smallest i whose window input[i..i+5) has at least 3 depositing
\* segments and only segments with x >= 10, y >= 20 at both endpoints and x- and
\* y-extent <= 100; it is 0 when there is no such window.
C9_StartBoundary ==
    (pc = "trimmed" /\ segments # <<>>) =>
        LET Q == {i \in 0..(Len(segments) - 5) : Qualifies(segments, i)}
        IN start = IF Q = {} THEN 0 ELSE SetMin(Q)

\* window 0 has 3 depositing segments and is skipped for a disqualified segment;
\* window 1 is selected and holds a segment exactly on the thresholds
C9_Witness ==
    /\ pc = "trimmed"
    /\ start = 1
    /\ Cardinality({k \in 1..5 : segments[k].is_extrusion}) >= 3
    /\ \E k \in 2..6 :
        /\ segments[k].start.x = 10
        /\ segments[k].start.y = 20
        /\ segments[k].end.x - segments[k].start.x = 100
        /\ segments[k].end.y - segments[k].start.y = 100

----------------------------------------------------------------------------
(* Claims about compute_bounds, checked under SpecBounds *)

\* the start and end points of the depositing segments
DepositPoints(segs) ==
    {segs[k].start : k \in Depositing(segs)} \cup {segs[k].end : k \in Depositing(segs)}

\* the subsequence of the depositing segments
DepositingOnly(segs) == SelectSeq(segs, LAMBDA s : s.is_extrusion)

RemoveAt(segs, k) == SubSeq(segs, 1, k - 1) \o SubSeq(segs, k + 1, Len(segs))

InsertAt(segs, k, s) == SubSeq(segs, 1, k) \o <<s>> \o SubSeq(segs, k + 1, Len(segs))

\* C10: with a depositing segment, min and max are per axis the least and greatest
\* coordinate over the start and end points of the depositing segments only; the
\* result is that of the depositing-only subsequence and does not change when a
\* non-depositing segment is removed or inserted.
C10_BoundsOverDepositing ==
    (pc = "bounded" /\ Depositing(trimmed) # {}) =>
        LET P == DepositPoints(trimmed)
        IN /\ bounds.min.x = Fin(SetMin({p.x : p \in P}))
           /\ bounds.min.y = Fin(SetMin({p.y : p \in P}))
           /\ bounds.min.z = Fin(SetMin({p.z : p \in P}))
           /\ bounds.max.x = Fin(SetMax({p.x : p \in P}))
           /\ bounds.max.y = Fin(SetMax({p.y : p \in P}))
           /\ bounds.max.z = Fin(SetMax({p.z : p \in P}))
           /\ bounds = ComputeBounds(DepositingOnly(trimmed))
           /\ \A k \in DOMAIN trimmed :
                ~trimmed[k].is_extrusion => ComputeBounds(RemoveAt(trimmed, k)) = bounds
           /\ \A k \in 0..Len(trimmed) : \A s \in SegPool :
                ~s.is_extrusion => ComputeBounds(InsertAt(trimmed, k, s)) = bounds

\* a non-depositing segment reaches outside the bounds of the depositing ones
C10_Witness ==
    /\ pc = "bounded"
    /\ Depositing(trimmed) # {}
    /\ \E k \in DOMAIN trimmed :
        /\ ~trimmed[k].is_extrusion
        /\ ~ExtLeq(Fin(trimmed[k].end.z), bounds.max.z)

----------------------------------------------------------------------------
(* Claims about main's pipeline and the interpreter, checked under Spec *)

\* C11: when the trimmed sequence has no depositing segment the bounds stay at
\* their initial extrema and main does not go on to compute center and scale from
\* them.
C11_DegenerateBoundsGuarded ==
    (pc \in {"bounded", "viewing"} /\ Depositing(trimmed) = {}) =>
        /\ bounds = BoundsNew
        /\ pc # "viewing"

\* a line that parse_gcode skips or ignores
Ineffective(l) ==
    IsSkipped(l) \/ (l.kind = "gcode" /\ ~(l.mnemonic = "G" /\ l.major \in {0, 1, 90, 91}))

\* the interpreter as a function of the lines: state after the lines, from st
RECURSIVE Interpret(_, _)
Interpret(st, lines) ==
    IF lines = <<>> THEN st
    ELSE LET l == Head(lines)
             new == Resolve(st.pos, st.e, st.mode, l.arguments)
         IN Interpret(
              IF IsMove(l)
              THEN [pos |-> new.pos, e |-> new.e, mode |-> st.mode,
                    segs |-> IF SegmentEmitted(st.pos, new.pos)
                             THEN Append(st.segs,
                                         NewSegment(st.pos, new.pos, IsExtrusion(new.e, st.e)))
                             ELSE st.segs]
              ELSE IF l.kind = "gcode" /\ l.mnemonic = "G" /\ l.major = 90
              THEN [st EXCEPT !.mode = TRUE]
              ELSE IF l.kind = "gcode" /\ l.mnemonic = "G" /\ l.major = 91
              THEN [st EXCEPT !.mode = FALSE]
              ELSE st,
              Tail(lines))

InterpretInitial == [pos |-> Vec3DZero, e |-> 0, mode |-> TRUE, segs |-> <<>>]

\* C12: a blank line, a comment, a non-General command and a General command other
\* than G0, G1, G90, G91 leave position, quantity and mode unchanged and emit no
\* segment; the segments are those of the input with all such lines removed.
C12_IneffectiveLines ==
    /\ (input # <<>> /\ Ineffective(LastLine)) =>
        /\ current_pos = prior.pos
        /\ e_pos = prior.e
        /\ absolute_mode = prior.mode
        /\ Len(segments) = prior.nsegs
    /\ LET st == Interpret(InterpretInitial, SelectSeq(input, LAMBDA l : ~Ineffective(l)))
       IN /\ segments = st.segs
          /\ current_pos = st.pos
          /\ e_pos = st.e
          /\ absolute_mode = st.mode

\* G92 E0 between two motion commands that both emit a segment, the quantity being
\* non-zero when G92 is read
C12_Witness ==
    /\ Len(input) = 3
    /\ IsMove(input[1])
    /\ input[2] = GCode("G", 92, <<Word("E", 0)>>)
    /\ IsMove(input[3])
    /\ Len(segments) = 2
    /\ segments[1].is_extrusion

\* the last command was a G0/G1 that emitted a segment
SegmentDone == MoveDone /\ Len(segments) = prior.nsegs + 1

\* the last command was a G0/G1 that changed the quantity and emitted nothing
QuantityOnlyDone ==
    /\ MoveDone
    /\ current_pos = prior.pos
    /\ Len(segments) = prior.nsegs
    /\ e_pos # prior.e

\* C13: a G0/G1 command that resolves to the prior position emits no segment but
\* stores the quantity its E argument resolves to (v in absolute mode, prior + v
\* in relative mode); a move that follows and resolves to that same quantity
\* emits a segment with is_extrusion = FALSE.
C13_StateUpdatedWithoutSegment ==
    /\ [](  (MoveDone /\ current_pos = prior.pos /\ "E" \in Carried(LastLine.arguments)) =>
              /\ Len(segments) = prior.nsegs
              /\ e_pos = IF prior.mode
                         THEN LastValue(LastLine.arguments, "E")
                         ELSE prior.e + LastValue(LastLine.arguments, "E"))
    /\ [][ (QuantityOnlyDone /\ SegmentDone' /\ Len(input') = Len(input) + 1 /\ e_pos' = e_pos)
              => ~segments'[Len(segments')].is_extrusion ]_vars

\* G1 E<v> stored a quantity without a segment, and the move after it resolved to
\* the same quantity and emitted a non-depositing segment
C13_Witness ==
    /\ Len(input) = 2
    /\ IsMove(input[1])
    /\ Carried(input[1].arguments) = {"E"}
    /\ prior.nsegs = 0
    /\ prior.pos = Vec3DZero
    /\ prior.e > 0
    /\ SegmentDone
    /\ e_pos = prior.e
    /\ ~segments[1].is_extrusion

\* the mode set by the most recent G90/G91 of the lines, absolute when there is none
RECURSIVE ModeAfter(_)
ModeAfter(lines) ==
    IF lines = <<>> THEN TRUE
    ELSE LET l == lines[Len(lines)]
         IN IF l.kind = "gcode" /\ l.mnemonic = "G" /\ l.major = 90 THEN TRUE
            ELSE IF l.kind = "gcode" /\ l.mnemonic = "G" /\ l.major = 91 THEN FALSE
            ELSE ModeAfter(SubSeq(lines, 1, Len(lines) - 1))

\* C14: G90 sets the mode to absolute and G91 to relative, each without a segment
\* and without a change of position or quantity; the mode is absolute initially
\* and always that of the most recent G90/G91.
C14_PositioningMode ==
    /\ absolute_mode = ModeAfter(input)
    /\ (input # <<>> /\ LastLine.kind = "gcode" /\ LastLine.mnemonic = "G"
            /\ LastLine.major \in {90, 91}) =>
        /\ absolute_mode = (LastLine.major = 90)
        /\ current_pos = prior.pos
        /\ e_pos = prior.e
        /\ Len(segments) = prior.nsegs

\* G91, then G90, read after a move away from the origin
C14_Witness ==
    /\ Len(input) = 3
    /\ IsMove(input[1])
    /\ input[2] = GCode("G", 91, <<>>)
    /\ input[3] = GCode("G", 90, <<>>)
    /\ current_pos # Vec3DZero
    /\ absolute_mode

\* C15: a G0/G1 command without an E argument never produces a depositing
\* segment, in either positioning mode and for any prior quantity.
C15_NoEArgumentNotDepositing ==
    (SegmentDone /\ "E" \notin Carried(LastLine.arguments)) =>
        ~segments[Len(segments)].is_extrusion

\* C16: every segment parse_gcode emits, and every segment of the trimmed
\* sequence, has layer_z equal to the z of its end point.
C16_LayerZIsEndZ ==
    /\ \A i \in DOMAIN segments : segments[i].layer_z = segments[i].end.z
    /\ \A i \in DOMAIN trimmed : trimmed[i].layer_z = trimmed[i].end.z

\* the trimmed sequence keeps a segment that changed z
C16_Witness ==
    /\ pc = "trimmed"
    /\ \E i \in DOMAIN trimmed :
        /\ trimmed[i].end.z # trimmed[i].start.z
        /\ trimmed[i].layer_z = trimmed[i].end.z

\* C17: the emitted segments form one connected path from the origin, and the
\* stored position is the end of that path (it changes only with a segment).
C17_PathContinuity ==
    /\ segments # <<>> => segments[1].start = Vec3DZero
    /\ \A i \in 1..(Len(segments) - 1) : segments[i + 1].start = segments[i].end
    /\ current_pos = IF segments = <<>> THEN Vec3DZero ELSE segments[Len(segments)].end
    /\ (input # <<>> /\ current_pos # prior.pos) => Len(segments) = prior.nsegs + 1

\* three segments, the second one a move in z only
C17_Witness ==
    /\ Len(segments) = 3
    /\ segments[2].start.x = segments[2].end.x
    /\ segments[2].start.y = segments[2].end.y
    /\ segments[2].start.z # segments[2].end.z

\* the greatest extent of the depositing segments' points over the three axes
DepositExtent(segs) ==
    LET P == DepositPoints(segs)
    IN SetMax({SetMax({p.x : p \in P}) - SetMin({p.x : p \in P}),
               SetMax({p.y : p \in P}) - SetMin({p.y : p \in P}),
               SetMax({p.z : p \in P}) - SetMin({p.z : p \in P})})

\* C19: when the parsed segments include a depositing one, so do the trimmed
\* segments, the bounds have min <= max on every axis, and max_dimension is
\* greater than 0, so that scale = 2 / max_dimension is finite and positive.
C19_NonDegenerateScale ==
    (pc \in {"bounded", "viewing"} /\ Depositing(segments) # {}) =>
        /\ Depositing(trimmed) # {}
        /\ \A a \in {"x", "y", "z"} :
            /\ bounds.min[a].inf = 0
            /\ bounds.max[a].inf = 0
            /\ bounds.min[a].v <= bounds.max[a].v
        /\ DepositExtent(trimmed) > 0
        /\ pc = "viewing" => scale = F32(0, 2, DepositExtent(trimmed))

\* scale was computed for a file with a depositing and a non-depositing segment
C19_Witness ==
    /\ pc = "viewing"
    /\ Depositing(segments) # {}
    /\ Depositing(segments) # DOMAIN segments
    /\ scale.inf = 0
    /\ scale.num = 2
    /\ scale.den > 0

----------------------------------------------------------------------------
(* Claims about the trimmer followed by main's check and compute_bounds,   *)
(* checked under SpecTrim                                                  *)

\* C18: for a non-empty input the trimmer uses start < end, so its output is not
\* empty; main bails out for an empty trimmed sequence exactly when the sequence it
\* handed to the trimmer was empty.
C18_TrimmingNeverEmpties ==
    /\ (pc \in {"trimmed", "bounded"} /\ segments # <<>>) =>
        /\ start < end
        /\ trimmed # <<>>
    /\ pc = "bailed" => segments = <<>>
    /\ (pc \in {"trimmed", "bailed"} /\ segments = <<>>) => trimmed = <<>>

\* a selected window starts the output and the last depositing segment ends it,
\* with segments cut at both ends
C18_Witness ==
    /\ pc = "bounded"
    /\ start > 0
    /\ end < Len(segments)
    /\ start < end
    /\ end = SetMax(Depositing(segments))

\* C20: for a sequence with a depositing segment, the bounds of the trimmed
\* sequence lie within the bounds of the whole sequence on every axis, and are
\* equal to them whenever start is 0.
C20_TrimmingShrinksBounds ==
    (pc = "bounded" /\ Depositing(segments) # {}) =>
        LET full == ComputeBounds(segments)
        IN /\ \A a \in {"x", "y", "z"} :
                /\ ExtLeq(full.min[a], bounds.min[a])
                /\ ExtLeq(bounds.max[a], full.max[a])
                /\ bounds.min[a].inf = 0
                /\ bounds.max[a].inf = 0
           /\ start = 0 => bounds = full

\* the trimmer cut a depositing segment at the start and the bounds shrank
C20_Witness ==
    /\ pc = "bounded"
    /\ start > 0
    /\ \E k \in 1..start : segments[k].is_extrusion
    /\ bounds # ComputeBounds(segments)

----------------------------------------------------------------------------
(* The main loop entered with any max_z, checked under SpecView *)

\* the values of bounds.max.z the loop is entered with: -infinity (nothing was
\* deposited) and the finite heights from -LayerStep to MaxLayerZ
MaxZValues == {NegInf} \cup {Fin(v) : v \in (-LayerStep)..MaxLayerZ}

\* main after lines 277-280
InitLoop ==
    /\ max_z \in MaxZValues
    /\ layer_filter_z = max_z
    /\ layer_filter_enabled = FALSE
    /\ keys = NoKeys
    /\ pc = "loop"
    /\ input = <<>>
    /\ current_pos = Vec3DZero
    /\ e_pos = 0
    /\ absolute_mode = TRUE
    /\ segments = <<>>
    /\ prior = [pos |-> Vec3DZero, e |-> 0, mode |-> TRUE, nsegs |-> 0]
    /\ start = 0
    /\ end = 0
    /\ trimmed = <<>>
    /\ bounds = BoundsNew
    /\ center = [x |-> F32Zero, y |-> F32Zero, z |-> F32Zero]
    /\ scale = F32Zero

NextView ==
    \/ Frame
    \/ Quit

SpecView == InitLoop /\ [][NextView]_vars

\* max_z is a finite height >= 0
MaxZNonNegative == max_z.inf = 0 /\ max_z.v >= 0

\* C21: with max_z >= 0, layer_filter_z starts at max_z and after any key presses
\* satisfies 0 <= layer_filter_z <= max_z; Up alone adds 0.5 capped at max_z, Down
\* alone subtracts 0.5 floored at 0; while the layer filter is disabled Up and Down
\* leave layer_filter_z unchanged.
C21_LayerFilterInRange ==
    /\ layer_filter_z = max_z
    /\ []((pc \in {"loop", "exit"} /\ MaxZNonNegative) =>
            /\ layer_filter_z.inf = 0
            /\ 0 <= layer_filter_z.v
            /\ layer_filter_z.v <= max_z.v)
    /\ [][ (pc = "loop" /\ pc' = "loop" /\ ~layer_filter_enabled')
              => layer_filter_z' = layer_filter_z ]_vars
    /\ [][ (pc = "loop" /\ pc' = "loop" /\ MaxZNonNegative /\ layer_filter_enabled'
                /\ keys'.up /\ ~keys'.down)
              => layer_filter_z'.v = IF layer_filter_z.v + 2 <= max_z.v
                                     THEN layer_filter_z.v + 2 ELSE max_z.v ]_vars
    /\ [][ (pc = "loop" /\ pc' = "loop" /\ MaxZNonNegative /\ layer_filter_enabled'
                /\ keys'.down /\ ~keys'.up)
              => layer_filter_z'.v = IF layer_filter_z.v - 2 >= 0
                                     THEN layer_filter_z.v - 2 ELSE 0 ]_vars

\* Down floored the height at 0 from a quarter above it, under a max_z that is no
\* multiple of the step
C21_Witness ==
    /\ pc = "loop"
    /\ max_z = Fin(3)
    /\ layer_filter_enabled
    /\ keys.down
    /\ ~keys.up
    /\ layer_filter_z = Fin(0)

====
